---- MODULE Spec2Model ----
(***************************************************************************)
(* Model of lib/firestore.js: the LoopBack connector class Firestore.      *)
(* Every facade method issues calls on the Firestore client; each call     *)
(* settles later (fulfilled or rejected) and the promise handler attached  *)
(* to it then runs to completion.  One action per method call and one per  *)
(* promise handler.                                                        *)
(***************************************************************************)
EXTENDS Integers, Sequences, FiniteSets, TLC

VARIABLES store, projectId, req, prev

vars == <<store, projectId, req, prev>>

\* ------------------------------------------------------------------ bounds
MaxDocs == 2        \* document identities of a collection in the CRUD runs
MaxSweepDocs == 21  \* documents seeded in a collection before a sweep
MaxReq == 2         \* requests that can be in flight together
MaxBatch == 3       \* page sizes passed to deleteCollection by a direct caller
MaxRaceDocs == 4    \* documents seeded in a collection swept by several clients

\* page size destroyAll passes to deleteCollection
DefaultBatchSize == 10

Models == {"m1", "m2"}
Ids == 1..MaxDocs
Slots == 1..MaxReq

\* ---------------------------------------------------------------- documents
\* A document is a mapping from field name to value.
EmptyDoc == [f \in {} |-> 0]
DocA1 == [f \in {"a"} |-> 1]
DocB2 == [f \in {"b"} |-> 2]
DocA2B1 == [f \in {"a", "b"} |-> IF f = "a" THEN 2 ELSE 1]

\* the data objects callers pass to create / update / set
DataSet == {DocA1, DocB2, DocA2B1}

\* mutant of SetDoc: set called with {merge: true}
SetDoc_merge(old, data) ==
  [f \in (DOMAIN old) \cup (DOMAIN data) |->
     IF f \in DOMAIN data THEN data[f] ELSE old[f]]

\* DocumentReference.set(data): the stored mapping becomes data
SetDoc(old, data) == data

\* DocumentReference.update(data): data's fields override, the others stay
UpdateDoc(old, data) ==
  [f \in (DOMAIN old) \cup (DOMAIN data) |->
     IF f \in DOMAIN data THEN data[f] ELSE old[f]]

\* mutant of WithId: a stored field id is kept
WithId_keepStored(doc, id) ==
  [f \in (DOMAIN doc) \cup {"id"} |->
     IF f \in DOMAIN doc THEN doc[f] ELSE id]

\* docContent = doc.data(); docContent.id = doc.id
WithId(doc, id) ==
  [f \in (DOMAIN doc) \cup {"id"} |-> IF f = "id" THEN id ELSE doc[f]]

\* ------------------------------------------------------------------ filters
\* A where object is the sequence of its own <<key, value>> pairs in
\* property order (the order of for-in, Object.keys and Object.values).
NoWhere == << >>
Reserved == {"eq", "lt", "lte", "bt", "bte"}

WhereKeys(w) == {w[i][1] : i \in DOMAIN w}

\* w[key] for a key the object has
WhereGet(w, key) == w[CHOOSE i \in DOMAIN w : w[i][1] = key][2]

\* JavaScript truthiness of where.id (undefined and 0 are falsy)
HasId(w) == "id" \in WhereKeys(w) /\ WhereGet(w, "id") # 0

\* filter: defined = the filter argument is an object; hasWhere = filter.where
\* is an object; orderBy = "" when filter.orderBy is absent
NoFilter == [defined |-> FALSE, hasWhere |-> FALSE, where |-> NoWhere, orderBy |-> ""]
MkFilter(w, o) == [defined |-> TRUE, hasWhere |-> TRUE, where |-> w, orderBy |-> o]
OrderOnly(o) == [defined |-> TRUE, hasWhere |-> FALSE, where |-> NoWhere, orderBy |-> o]

\* --------------------------------------------------------------- the store
\* store[m] is the collection m: a function from the identities of its
\* documents to their field mappings.
Coll(m) == store[m]
DocIds(m) == DOMAIN store[m]

\* Query.where(key, '==', value): the field is present and equal
FieldEq(doc, key, value) == key \in DOMAIN doc /\ doc[key] = value

\* the identities of S in ascending order (the store's enumeration order)
Ascending(S) ==
  [k \in 1..Cardinality(S) |->
     CHOOSE x \in S : Cardinality({y \in S : y <= x}) = k]

\* Query.orderBy(field): ascending on the field, ties by identity; a document
\* without the field is not part of an ordered query's result
OrderByField(coll, S, field) ==
  LET T == {i \in S : field \in DOMAIN coll[i]}
      Before(y, x) == \/ coll[y][field] < coll[x][field]
                      \/ coll[y][field] = coll[x][field] /\ y <= x
  IN [k \in 1..Cardinality(T) |->
        CHOOSE x \in T : Cardinality({y \in T : Before(y, x)}) = k]

\* mutant of query: the clause of a later key replaces the clause before it
\* (filteredCollection = collection.where(...) instead of chaining)
query_lastClause(coll, filter) ==
  LET clauses == {i \in DOMAIN filter.where : filter.where[i][1] \notin Reserved}
      last == {i \in clauses : \A j \in clauses : j <= i}
      hits == {d \in DOMAIN coll :
                 \A i \in last :
                    FieldEq(coll[d], filter.where[i][1], filter.where[i][2])}
  IN IF filter.orderBy # ""
     THEN OrderByField(coll, hits, filter.orderBy)
     ELSE Ascending(hits)

\* query(model, filter): one equality clause per key of filter.where that is
\* not a reserved operator name, then the ordering clause; the value is the
\* sequence of identities Query.get() yields on the collection coll
query(coll, filter) ==
  LET clauses == {i \in DOMAIN filter.where : filter.where[i][1] \notin Reserved}
      hits == {d \in DOMAIN coll :
                 \A i \in clauses :
                    FieldEq(coll[d], filter.where[i][1], filter.where[i][2])}
  IN IF filter.orderBy # ""
     THEN OrderByField(coll, hits, filter.orderBy)
     ELSE Ascending(hits)

\* snapshot.forEach(doc => { docu = doc.data(); docu.id = doc.id; data.push(docu) })
Collect(coll, ids) == [k \in DOMAIN ids |-> WithId(coll[ids[k]], ids[k])]

\* ---------------------------------------------------------------- requests
\* callback(err, result): one record per invocation (for deleteCollection
\* called directly: resolve() or reject(err) of the promise it returned)
Res(kind, val) == [kind |-> kind, val |-> val]
Undefined == Res("undefined", 0)
Cb(err, res) == [err |-> err, res |-> res]
StoreError == "StoreError"
NotFound == "Document not found"

Idle ==
  [op |-> "none", pc |-> "idle", model |-> "m1", id |-> 0, data |-> EmptyDoc,
   filter |-> NoFilter, where |-> NoWhere, batchSize |-> 0, page |-> << >>,
   fetches |-> 0, commits |-> 0, failed |-> FALSE, pre |-> {}, gone |-> {},
   calls |-> << >>]

\* a request has no store call outstanding and no handler left to run
\* ("thrown": the method threw before it issued a store call)
Settled(q) == q.pc \in {"idle", "done", "unhandled", "thrown"}

\* what the caller learned from its previous request on this slot
\* (a create that returned an identity, a destroyById, destroyAll or
\* deleteCollection that reported success; id is 0 for a sweep)
NoPrev == [op |-> "none", model |-> "m1", id |-> 0]
Outcome(q) ==
  IF q.pc = "done" /\ Len(q.calls) = 1 /\ q.calls[1].err = "null"
     /\ q.op \in {"create", "destroyById", "destroyAll", "deleteCollection"}
  THEN [op |-> q.op, model |-> q.model,
        id |-> IF q.op = "create" THEN q.calls[1].res.val ELSE q.id]
  ELSE NoPrev

\* a method is called on slot r: the previous request of the slot is over
Start(r, q) ==
  /\ Settled(req[r])
  /\ req' = [req EXCEPT ![r] = q]
  /\ prev' = [prev EXCEPT ![r] = Outcome(req[r])]

\* the handler of request r invokes the callback(s) cbs and the request ends
Finish(r, cbs) ==
  req' = [req EXCEPT ![r].pc = "done", ![r].calls = cbs]

\* a store call of request r is rejected and only .catch(err => callback(err))
\* is attached
Catch(r) ==
  req' = [req EXCEPT ![r].pc = "done", ![r].failed = TRUE,
                     ![r].calls = <<Cb(StoreError, Undefined)>>]

\* ------------------------------------------------------------------ inputs
WhereA1 == << <<"a", 1>> >>
WhereA2B1 == << <<"a", 2>>, <<"b", 1>> >>
WhereB1A2 == << <<"b", 1>>, <<"a", 2>> >>
WhereLtA1 == << <<"lt", 1>>, <<"a", 1>> >>
WhereId(i) == << <<"id", i>> >>

FindFilters ==
  {NoFilter, OrderOnly("a"), MkFilter(NoWhere, ""), MkFilter(NoWhere, "a"),
   MkFilter(WhereA1, ""), MkFilter(WhereA1, "b"), MkFilter(WhereA2B1, ""),
   MkFilter(WhereLtA1, "")}
  \cup {MkFilter(WhereId(i), "") : i \in Ids}
UpdateFilters == {MkFilter(WhereA1, ""), MkFilter(NoWhere, "a")}
CountWheres == {NoWhere, WhereA1, WhereA2B1, WhereB1A2, WhereLtA1}
DestroyWheres == {NoWhere, WhereA1} \cup {WhereId(i) : i \in Ids}

\* --------------------------------------------------------------------- find
\* all(model, filter, callback): which read is issued
all(r, m, f) ==
  /\ Start(r, [Idle EXCEPT !.op = "all", !.model = m, !.filter = f,
                 !.pc = IF f.defined /\ f.hasWhere
                        THEN IF HasId(f.where) THEN "point" ELSE "query"
                        ELSE "scan"])
  /\ UNCHANGED <<store, projectId>>

\* mutant of all_point_then: a missing document is reported as an error
all_point_then_missingIsError(r) ==
  /\ req[r].op = "all" /\ req[r].pc = "point"
  /\ LET id == WhereGet(req[r].filter.where, "id")
         coll == Coll(req[r].model)
     IN IF id \notin DOMAIN coll
        THEN Finish(r, <<Cb(NotFound, Undefined)>>)
        ELSE Finish(r, <<Cb("null", Res("array", <<WithId(coll[id], id)>>))>>)
  /\ UNCHANGED <<store, projectId, prev>>

\* collection.doc(filter.where.id).get().then(doc => ...)
all_point_then(r) ==
  /\ req[r].op = "all" /\ req[r].pc = "point"
  /\ LET id == WhereGet(req[r].filter.where, "id")
         coll == Coll(req[r].model)
     IN IF id \notin DOMAIN coll
        THEN Finish(r, <<Cb("null", Res("object", EmptyDoc))>>)
        ELSE Finish(r, <<Cb("null", Res("array", <<WithId(coll[id], id)>>))>>)
  /\ UNCHANGED <<store, projectId, prev>>

\* this.query(model, filter).get().then(snapshot => ...).then(() => callback(null, data))
all_query_then(r) ==
  /\ req[r].op = "all" /\ req[r].pc = "query"
  /\ LET coll == Coll(req[r].model)
     IN Finish(r, <<Cb("null", Res("array", Collect(coll, query(coll, req[r].filter))))>>)
  /\ UNCHANGED <<store, projectId, prev>>

\* collection.get().then(snapshot => ...).then(() => callback(null, data))
all_scan_then(r) ==
  /\ req[r].op = "all" /\ req[r].pc = "scan"
  /\ LET coll == Coll(req[r].model)
     IN Finish(r, <<Cb("null", Res("array", Collect(coll, Ascending(DOMAIN coll))))>>)
  /\ UNCHANGED <<store, projectId, prev>>

\* .catch(err => callback(err)) of the three reads
all_catch(r) ==
  /\ req[r].op = "all" /\ req[r].pc \in {"point", "query", "scan"}
  /\ Catch(r)
  /\ UNCHANGED <<store, projectId, prev>>

\* ------------------------------------------------------------------- create
create(r, m, data) ==
  /\ Start(r, [Idle EXCEPT !.op = "create", !.model = m, !.data = data, !.pc = "add"])
  /\ UNCHANGED <<store, projectId>>

\* add(data).then(ref => callback(null, ref.id)): the store assigns an
\* identity no document of the collection has
create_then(r) ==
  /\ req[r].op = "create" /\ req[r].pc = "add"
  /\ \E id \in Ids \ DocIds(req[r].model) :
       /\ store' = [store EXCEPT ![req[r].model] =
                      [i \in DocIds(req[r].model) \cup {id} |->
                         IF i = id THEN req[r].data ELSE store[req[r].model][i]]]
       /\ Finish(r, <<Cb("null", Res("id", id))>>)
  /\ UNCHANGED <<projectId, prev>>

create_catch(r) ==
  /\ req[r].op = "create" /\ req[r].pc = "add"
  /\ Catch(r)
  /\ UNCHANGED <<store, projectId, prev>>

\* ------------------------------------------------------- update, updateAll
\* the collection coll after update(data) on each identity of targets: the
\* effect of update(data) called on a query, a partial update of every document
\* the query yields
Patched(coll, targets, data) ==
  [i \in DOMAIN coll |->
     IF \E k \in DOMAIN targets : targets[k] = i
     THEN UpdateDoc(coll[i], data) ELSE coll[i]]

\* limit(n) on a query result
Limit(ids, n) == SubSeq(ids, 1, IF Len(ids) < n THEN Len(ids) ELSE n)

\* what calling update(data) on a query does. The client offers update() on
\* a document reference; a query (the value of query() and of limit()) of the
\* Firestore client has no update member, so the call expression throws a
\* TypeError inside the method: no promise, no handler, no callback
\* ("thrown"). With a client whose queries do offer it the call is issued
\* ("qupdate") and the handlers below run.
QueryUpdate == {"qupdate", "thrown"}

update(r, m, f, data) ==
  /\ \E pc \in QueryUpdate :
       Start(r, [Idle EXCEPT !.op = "update", !.model = m, !.filter = f,
                   !.data = data, !.pc = pc])
  /\ UNCHANGED <<store, projectId>>

\* this.query(model, filter).limit(1).update(data).then(result => callback(null, result))
update_then(r) ==
  /\ req[r].op = "update" /\ req[r].pc = "qupdate"
  /\ LET coll == Coll(req[r].model)
     IN store' = [store EXCEPT ![req[r].model] =
                    Patched(coll, Limit(query(coll, req[r].filter), 1), req[r].data)]
  /\ Finish(r, <<Cb("null", Res("writeResult", 0))>>)
  /\ UNCHANGED <<projectId, prev>>

\* .catch(callback)
update_catch(r) ==
  /\ req[r].op = "update" /\ req[r].pc = "qupdate"
  /\ Catch(r)
  /\ UNCHANGED <<store, projectId, prev>>

updateAll(r, m, f, data) ==
  /\ \E pc \in QueryUpdate :
       Start(r, [Idle EXCEPT !.op = "updateAll", !.model = m, !.filter = f,
                   !.data = data, !.pc = pc])
  /\ UNCHANGED <<store, projectId>>

\* this.query(model, filter).update(data).then(result => callback(null, result))
updateAll_then(r) ==
  /\ req[r].op = "updateAll" /\ req[r].pc = "qupdate"
  /\ LET coll == Coll(req[r].model)
     IN store' = [store EXCEPT ![req[r].model] =
                    Patched(coll, query(coll, req[r].filter), req[r].data)]
  /\ Finish(r, <<Cb("null", Res("writeResult", 0))>>)
  /\ UNCHANGED <<projectId, prev>>

updateAll_catch(r) ==
  /\ req[r].op = "updateAll" /\ req[r].pc = "qupdate"
  /\ Catch(r)
  /\ UNCHANGED <<store, projectId, prev>>

\* ------------------------------------------------- existence-guarded writes
\* mutant of ProbeThen: the write is issued whatever the probe found
ProbeThen_noGuard(r) == req' = [req EXCEPT ![r].pc = "write"]

\* this.exists(model, id, null, (err, res) => ...) fulfilled: err is null
\* and res is doc.exists; the write is issued, or the not-found callback made
ProbeThen(r) ==
  IF req[r].id \in DocIds(req[r].model)
  THEN req' = [req EXCEPT ![r].pc = "write"]
  ELSE Finish(r, <<Cb(NotFound, Undefined)>>)

\* the probe rejected: exists calls back (err) alone, so res is undefined:
\* "if (err) callback(err)" and then the else branch of "if (res)"
ProbeCatch(r) ==
  req' = [req EXCEPT ![r].pc = "done", ![r].failed = TRUE,
                     ![r].calls = <<Cb(StoreError, Undefined), Cb(NotFound, Undefined)>>]

\* the write's promise rejected: it has a .then and no .catch
WriteReject(r) ==
  req' = [req EXCEPT ![r].pc = "unhandled", ![r].failed = TRUE]

\* the collection coll without the documents of S
Without(coll, S) == [i \in (DOMAIN coll) \ S |-> coll[i]]

replaceById(r, m, id, data) ==
  /\ Start(r, [Idle EXCEPT !.op = "replaceById", !.model = m, !.id = id,
                 !.data = data, !.pc = "probe"])
  /\ UNCHANGED <<store, projectId>>

replaceById_exists_then(r) ==
  /\ req[r].op = "replaceById" /\ req[r].pc = "probe"
  /\ ProbeThen(r)
  /\ UNCHANGED <<store, projectId, prev>>

replaceById_exists_catch(r) ==
  /\ req[r].op = "replaceById" /\ req[r].pc = "probe"
  /\ ProbeCatch(r)
  /\ UNCHANGED <<store, projectId, prev>>

\* doc(id).update(data).then(() => callback(null, [])): update needs the
\* document to exist
replaceById_update_then(r) ==
  /\ req[r].op = "replaceById" /\ req[r].pc = "write"
  /\ req[r].id \in DocIds(req[r].model)
  /\ store' = [store EXCEPT ![req[r].model][req[r].id] = UpdateDoc(@, req[r].data)]
  /\ Finish(r, <<Cb("null", Res("array", << >>))>>)
  /\ UNCHANGED <<projectId, prev>>

replaceById_update_reject(r) ==
  /\ req[r].op = "replaceById" /\ req[r].pc = "write"
  /\ WriteReject(r)
  /\ UNCHANGED <<store, projectId, prev>>

updateAttributes(r, m, id, data) ==
  /\ Start(r, [Idle EXCEPT !.op = "updateAttributes", !.model = m, !.id = id,
                 !.data = data, !.pc = "probe"])
  /\ UNCHANGED <<store, projectId>>

updateAttributes_exists_then(r) ==
  /\ req[r].op = "updateAttributes" /\ req[r].pc = "probe"
  /\ ProbeThen(r)
  /\ UNCHANGED <<store, projectId, prev>>

updateAttributes_exists_catch(r) ==
  /\ req[r].op = "updateAttributes" /\ req[r].pc = "probe"
  /\ ProbeCatch(r)
  /\ UNCHANGED <<store, projectId, prev>>

\* mutant of updateAttributes_set_then: the write is conditional on the document
\* being present when it is applied
updateAttributes_set_then_checked(r) ==
  /\ req[r].op = "updateAttributes" /\ req[r].pc = "write"
  /\ IF req[r].id \in DocIds(req[r].model)
     THEN /\ store' = [store EXCEPT ![req[r].model][req[r].id] =
                         SetDoc(@, req[r].data)]
          /\ Finish(r, <<Cb("null", Res("array", << >>))>>)
     ELSE /\ store' = store
          /\ Finish(r, <<Cb(NotFound, Undefined)>>)
  /\ UNCHANGED <<projectId, prev>>

\* doc(id).set(data).then(() => callback(null, [])): set writes the document
\* whether or not it exists
updateAttributes_set_then(r) ==
  /\ req[r].op = "updateAttributes" /\ req[r].pc = "write"
  /\ LET m == req[r].model
         id == req[r].id
         old == IF id \in DocIds(m) THEN store[m][id] ELSE EmptyDoc
     IN store' = [store EXCEPT ![m] =
                    [i \in DocIds(m) \cup {id} |->
                       IF i = id THEN SetDoc(old, req[r].data) ELSE store[m][i]]]
  /\ Finish(r, <<Cb("null", Res("array", << >>))>>)
  /\ UNCHANGED <<projectId, prev>>

updateAttributes_set_reject(r) ==
  /\ req[r].op = "updateAttributes" /\ req[r].pc = "write"
  /\ WriteReject(r)
  /\ UNCHANGED <<store, projectId, prev>>

destroyById(r, m, id) ==
  /\ Start(r, [Idle EXCEPT !.op = "destroyById", !.model = m, !.id = id,
                 !.pc = "probe"])
  /\ UNCHANGED <<store, projectId>>

destroyById_exists_then(r) ==
  /\ req[r].op = "destroyById" /\ req[r].pc = "probe"
  /\ ProbeThen(r)
  /\ UNCHANGED <<store, projectId, prev>>

destroyById_exists_catch(r) ==
  /\ req[r].op = "destroyById" /\ req[r].pc = "probe"
  /\ ProbeCatch(r)
  /\ UNCHANGED <<store, projectId, prev>>

\* mutant of destroyById_delete_then: success is reported, nothing is deleted
destroyById_delete_then_noDelete(r) ==
  /\ req[r].op = "destroyById" /\ req[r].pc = "write"
  /\ Finish(r, <<Cb("null", Res("array", << >>))>>)
  /\ UNCHANGED <<store, projectId, prev>>

\* doc(id).delete().then(() => callback(null, [])): delete succeeds on a
\* missing document too
destroyById_delete_then(r) ==
  /\ req[r].op = "destroyById" /\ req[r].pc = "write"
  /\ store' = [store EXCEPT ![req[r].model] = Without(@, {req[r].id})]
  /\ Finish(r, <<Cb("null", Res("array", << >>))>>)
  /\ UNCHANGED <<projectId, prev>>

destroyById_delete_reject(r) ==
  /\ req[r].op = "destroyById" /\ req[r].pc = "write"
  /\ WriteReject(r)
  /\ UNCHANGED <<store, projectId, prev>>

\* --------------------------------------------------------------- destroyAll
\* deleteCollection(db, collectionPath, batchSize): the query is built and
\* the first page fetch of deleteQueryBatch is issued
deleteCollection(q, m, batchSize) ==
  [q EXCEPT !.model = m, !.batchSize = batchSize, !.pc = "fetch",
            !.fetches = 1, !.pre = DocIds(m)]

\* deleteCollection called by a caller of its own, with its own page size
deleteCollection_direct(r, m, batchSize) ==
  /\ Start(r, deleteCollection([Idle EXCEPT !.op = "deleteCollection"], m, batchSize))
  /\ UNCHANGED <<store, projectId>>

destroyAll(r, m, w) ==
  /\ Start(r, IF HasId(w)
              THEN [Idle EXCEPT !.op = "destroyAll", !.model = m, !.where = w,
                      !.id = WhereGet(w, "id"), !.pc = "probe"]
              ELSE deleteCollection([Idle EXCEPT !.op = "destroyAll", !.where = w],
                                    m, DefaultBatchSize))
  /\ UNCHANGED <<store, projectId>>

destroyAll_exists_then(r) ==
  /\ req[r].op = "destroyAll" /\ req[r].pc = "probe"
  /\ ProbeThen(r)
  /\ UNCHANGED <<store, projectId, prev>>

destroyAll_exists_catch(r) ==
  /\ req[r].op = "destroyAll" /\ req[r].pc = "probe"
  /\ ProbeCatch(r)
  /\ UNCHANGED <<store, projectId, prev>>

destroyAll_delete_then(r) ==
  /\ req[r].op = "destroyAll" /\ req[r].pc = "write"
  /\ store' = [store EXCEPT ![req[r].model] = Without(@, {req[r].id})]
  /\ Finish(r, <<Cb("null", Res("array", << >>))>>)
  /\ UNCHANGED <<projectId, prev>>

destroyAll_delete_reject(r) ==
  /\ req[r].op = "destroyAll" /\ req[r].pc = "write"
  /\ WriteReject(r)
  /\ UNCHANGED <<store, projectId, prev>>

\* resolve(): destroyAll's .then calls back (null, ''), a direct caller's
\* promise is fulfilled
Resolved(q) ==
  IF q.op = "destroyAll" THEN <<Cb("null", Res("string", ""))>>
  ELSE <<Cb("null", Undefined)>>

\* mutant of PageOf: the query has no limit
PageOf_noLimit(coll, batchSize) == Ascending(DOMAIN coll)

\* collectionRef.orderBy('__name__').limit(batchSize) on the collection coll
PageOf(coll, batchSize) == Limit(Ascending(DOMAIN coll), batchSize)

\* the set of the elements of a sequence
Range(s) == {s[k] : k \in DOMAIN s}

\* mutant of deleteQueryBatch_get_then: the batch is built and committed before
\* the size of the page is looked at
deleteQueryBatch_get_then_commitFirst(r) ==
  /\ req[r].pc = "fetch"
  /\ LET snapshot == PageOf(Coll(req[r].model), req[r].batchSize)
     IN IF Len(snapshot) = 0
        THEN req' = [req EXCEPT ![r].pc = "done", ![r].page = << >>,
                       ![r].commits = @ + 1,
                       ![r].calls = Resolved(req[r])]
        ELSE req' = [req EXCEPT ![r].pc = "commit", ![r].page = snapshot,
                       ![r].commits = @ + 1]
  /\ UNCHANGED <<store, projectId, prev>>

\* mutant of deleteQueryBatch_get_then: the page is read from the collection
\* as it was when the sweep began
deleteQueryBatch_get_then_stale(r) ==
  /\ req[r].pc = "fetch"
  /\ LET snapshot == Limit(Ascending(req[r].pre), req[r].batchSize)
     IN IF Len(snapshot) = 0
        THEN req' = [req EXCEPT ![r].pc = "done", ![r].page = << >>,
                       ![r].calls = Resolved(req[r])]
        ELSE req' = [req EXCEPT ![r].pc = "commit", ![r].page = snapshot,
                       ![r].commits = @ + 1]
  /\ UNCHANGED <<store, projectId, prev>>

\* mutant of deleteQueryBatch_get_then: the page is taken from the documents
\* that match the where of destroyAll
deleteQueryBatch_get_then_narrowed(r) ==
  /\ req[r].pc = "fetch"
  /\ LET snapshot == Limit(query(Coll(req[r].model), MkFilter(req[r].where, "")),
                           req[r].batchSize)
     IN IF Len(snapshot) = 0
        THEN req' = [req EXCEPT ![r].pc = "done", ![r].page = << >>,
                       ![r].calls = Resolved(req[r])]
        ELSE req' = [req EXCEPT ![r].pc = "commit", ![r].page = snapshot,
                       ![r].commits = @ + 1]
  /\ UNCHANGED <<store, projectId, prev>>

\* query.get().then(snapshot => ...): an empty page returns 0 and the next
\* handler resolves; otherwise one batch
\* with a delete for every document of the page is committed
deleteQueryBatch_get_then(r) ==
  /\ req[r].pc = "fetch"
  /\ LET snapshot == PageOf(Coll(req[r].model), req[r].batchSize)
     IN IF Len(snapshot) = 0
        THEN req' = [req EXCEPT ![r].pc = "done", ![r].page = << >>,
                       ![r].calls = Resolved(req[r])]
        ELSE req' = [req EXCEPT ![r].pc = "commit", ![r].page = snapshot,
                       ![r].commits = @ + 1]
  /\ UNCHANGED <<store, projectId, prev>>

\* mutant of deleteQueryBatch_commit_then: the batch holds a delete for the
\* first document of the page only
deleteQueryBatch_commit_then_firstOnly(r) ==
  /\ req[r].pc = "commit"
  /\ store' = [store EXCEPT ![req[r].model] = Without(@, {req[r].page[1]})]
  /\ req' = [req EXCEPT ![r].pc = "tick",
               ![r].gone = @ \cup ({req[r].page[1]} \cap DocIds(req[r].model))]
  /\ UNCHANGED <<projectId, prev>>

\* mutant of deleteQueryBatch_commit_then: resolve after the first commit, no
\* further round
deleteQueryBatch_commit_then_onePage(r) ==
  /\ req[r].pc = "commit"
  /\ store' = [store EXCEPT ![req[r].model] = Without(@, Range(req[r].page))]
  /\ req' = [req EXCEPT ![r].pc = "done",
               ![r].gone = @ \cup (Range(req[r].page) \cap DocIds(req[r].model)),
               ![r].calls = Resolved(req[r])]
  /\ UNCHANGED <<projectId, prev>>

\* batch.commit().then(() => snapshot.size) and the next handler: numDeleted
\* is not 0, the next round is scheduled with process.nextTick
deleteQueryBatch_commit_then(r) ==
  /\ req[r].pc = "commit"
  /\ store' = [store EXCEPT ![req[r].model] = Without(@, Range(req[r].page))]
  /\ req' = [req EXCEPT ![r].pc = "tick",
               ![r].gone = @ \cup (Range(req[r].page) \cap DocIds(req[r].model))]
  /\ UNCHANGED <<projectId, prev>>

\* mutant of deleteQueryBatch_nextTick: the scheduled round resolves instead
\* of fetching again
deleteQueryBatch_nextTick_resolve(r) ==
  /\ req[r].pc = "tick"
  /\ req' = [req EXCEPT ![r].pc = "done", ![r].calls = Resolved(req[r])]
  /\ UNCHANGED <<store, projectId, prev>>

\* process.nextTick(() => this.deleteQueryBatch(db, query, batchSize, resolve, reject))
deleteQueryBatch_nextTick(r) ==
  /\ req[r].pc = "tick"
  /\ req' = [req EXCEPT ![r].pc = "fetch", ![r].fetches = @ + 1]
  /\ UNCHANGED <<store, projectId, prev>>

\* mutant of deleteQueryBatch_catch: the failure is swallowed and the next
\* round is scheduled
deleteQueryBatch_catch_goOn(r) ==
  /\ req[r].pc \in {"fetch", "commit"}
  /\ req' = [req EXCEPT ![r].pc = "tick", ![r].failed = TRUE]
  /\ UNCHANGED <<store, projectId, prev>>

\* .catch(reject) of the fetch or the commit, then destroyAll's
\* .catch(err => callback(err)) (a direct caller's promise is rejected)
deleteQueryBatch_catch(r) ==
  /\ req[r].pc \in {"fetch", "commit"}
  /\ Catch(r)
  /\ UNCHANGED <<store, projectId, prev>>

\* ------------------------------------------------------ exists, count, ping
exists(r, m, id) ==
  /\ Start(r, [Idle EXCEPT !.op = "exists", !.model = m, !.id = id, !.pc = "probe"])
  /\ UNCHANGED <<store, projectId>>

\* doc(id).get().then(doc => callback(null, doc.exists))
exists_then(r) ==
  /\ req[r].op = "exists" /\ req[r].pc = "probe"
  /\ Finish(r, <<Cb("null", Res("bool", req[r].id \in DocIds(req[r].model)))>>)
  /\ UNCHANGED <<store, projectId, prev>>

exists_catch(r) ==
  /\ req[r].op = "exists" /\ req[r].pc = "probe"
  /\ Catch(r)
  /\ UNCHANGED <<store, projectId, prev>>

count(r, m, w) ==
  /\ Start(r, [Idle EXCEPT !.op = "count", !.model = m, !.where = w, !.pc = "get"])
  /\ UNCHANGED <<store, projectId>>

\* mutant of count_then: one equality clause per pair of where
count_then_allPairs(r) ==
  /\ req[r].op = "count" /\ req[r].pc = "get"
  /\ LET coll == Coll(req[r].model)
         w == req[r].where
         docs == {d \in DOMAIN coll :
                    \A i \in DOMAIN w : FieldEq(coll[d], w[i][1], w[i][2])}
     IN Finish(r, <<Cb("null", Res("number", Cardinality(docs)))>>)
  /\ UNCHANGED <<store, projectId, prev>>

\* Object.keys(where).length > 0: where(Object.keys(where)[0], '==',
\* Object.values(where)[0]).get(); else collection.get(); doc.docs.length
count_then(r) ==
  /\ req[r].op = "count" /\ req[r].pc = "get"
  /\ LET coll == Coll(req[r].model)
         w == req[r].where
         docs == IF Len(w) > 0
                 THEN {d \in DOMAIN coll : FieldEq(coll[d], w[1][1], w[1][2])}
                 ELSE DOMAIN coll
     IN Finish(r, <<Cb("null", Res("number", Cardinality(docs)))>>)
  /\ UNCHANGED <<store, projectId, prev>>

count_catch(r) ==
  /\ req[r].op = "count" /\ req[r].pc = "get"
  /\ Catch(r)
  /\ UNCHANGED <<store, projectId, prev>>

\* ping(callback): no store call, the callback is made at once
ping(r) ==
  /\ Start(r, [Idle EXCEPT !.op = "ping", !.pc = "done",
                 !.calls = IF projectId THEN <<Cb("null", Undefined)>>
                           ELSE <<Cb("Ping Error", Undefined)>>])
  /\ UNCHANGED <<store, projectId>>

\* ------------------------------------------------------------ specification
EmptyColl == [i \in {} |-> EmptyDoc]

\* a collection of n documents with the identities 1..n
Seeded(n) == [i \in 1..n |-> IF i % 2 = 1 THEN DocA1 ELSE DocB2]

\* after construction: no request yet; the CRUD runs start on an empty
\* collection m1 beside a collection m2 of one document
Init ==
  /\ store = [m \in Models |-> IF m = "m1" THEN EmptyColl ELSE Seeded(1)]
  /\ projectId \in BOOLEAN
  /\ req = [r \in Slots |-> Idle]
  /\ prev = [r \in Slots |-> NoPrev]

\* the calls a client can make
Call(r, ms) ==
  \E m \in ms :
    \/ \E f \in FindFilters : all(r, m, f)
    \/ \E d \in DataSet : create(r, m, d)
    \/ \E f \in UpdateFilters, d \in DataSet : update(r, m, f, d)
    \/ \E f \in UpdateFilters, d \in DataSet : updateAll(r, m, f, d)
    \/ \E id \in Ids, d \in DataSet : replaceById(r, m, id, d)
    \/ \E id \in Ids, d \in DataSet : updateAttributes(r, m, id, d)
    \/ \E id \in Ids : destroyById(r, m, id)
    \/ \E w \in DestroyWheres : destroyAll(r, m, w)
    \/ \E id \in Ids : exists(r, m, id)
    \/ \E w \in CountWheres : count(r, m, w)
    \/ ping(r)

\* the settling of a store call of request r and the handler it runs
Settle(r) ==
  \/ all_point_then(r) \/ all_query_then(r) \/ all_scan_then(r) \/ all_catch(r)
  \/ create_then(r) \/ create_catch(r)
  \/ update_then(r) \/ update_catch(r)
  \/ updateAll_then(r) \/ updateAll_catch(r)
  \/ replaceById_exists_then(r) \/ replaceById_exists_catch(r)
  \/ replaceById_update_then(r) \/ replaceById_update_reject(r)
  \/ updateAttributes_exists_then(r) \/ updateAttributes_exists_catch(r)
  \/ updateAttributes_set_then(r) \/ updateAttributes_set_reject(r)
  \/ destroyById_exists_then(r) \/ destroyById_exists_catch(r)
  \/ destroyById_delete_then(r) \/ destroyById_delete_reject(r)
  \/ destroyAll_exists_then(r) \/ destroyAll_exists_catch(r)
  \/ destroyAll_delete_then(r) \/ destroyAll_delete_reject(r)
  \/ deleteQueryBatch_get_then(r) \/ deleteQueryBatch_commit_then(r)
  \/ deleteQueryBatch_nextTick(r) \/ deleteQueryBatch_catch(r)
  \/ exists_then(r) \/ exists_catch(r)
  \/ count_then(r) \/ count_catch(r)

\* one client, one request at a time, on the collection m1
Next == Call(1, {"m1"}) \/ Settle(1)

Spec == Init /\ [][Next]_vars

\* ------------------------------------------------------------ sweep runs
\* the collection m1 holds 0..MaxSweepDocs documents, m2 one document
InitSweep ==
  /\ \E n \in 0..MaxSweepDocs : store = [m \in Models |-> IF m = "m1" THEN Seeded(n) ELSE Seeded(1)]
  /\ projectId \in BOOLEAN
  /\ req = [r \in Slots |-> Idle]
  /\ prev = [r \in Slots |-> NoPrev]

SweepWheres == {NoWhere, WhereA1}

SweepStep(r) ==
  \/ deleteQueryBatch_get_then(r) \/ deleteQueryBatch_commit_then(r)
  \/ deleteQueryBatch_nextTick(r) \/ deleteQueryBatch_catch(r)

\* one client sweeping m1 again and again, nobody else writing
NextSweep ==
  \/ \E w \in SweepWheres : destroyAll(1, "m1", w)
  \/ \E b \in 1..MaxBatch : deleteCollection_direct(1, "m1", b)
  \/ SweepStep(1)

SpecSweep == InitSweep /\ [][NextSweep]_vars

\* every issued store call settles and every scheduled tick runs
FairSweep == SpecSweep /\ WF_vars(SweepStep(1))

\* ------------------------------------------------------ concurrent sweeps
\* the collection m1 holds 0..MaxRaceDocs documents
InitSweeps ==
  /\ \E n \in 0..MaxRaceDocs :
       store = [m \in Models |-> IF m = "m1" THEN Seeded(n) ELSE EmptyColl]
  /\ projectId = TRUE
  /\ req = [r \in Slots |-> Idle]
  /\ prev = [r \in Slots |-> NoPrev]

\* the steps of a sweep none of whose store calls fails
SweepStepOk(r) ==
  \/ deleteQueryBatch_get_then(r) \/ deleteQueryBatch_commit_then(r)
  \/ deleteQueryBatch_nextTick(r)

\* the two clients that sweep at the same time
Sweepers == {1, 2}

\* two clients sweeping m1, their fetches, commits and ticks interleaved
\* in any order; no store call fails and nobody creates a document
NextSweeps ==
  \E r \in Sweepers :
    \/ destroyAll(r, "m1", NoWhere)
    \/ \E b \in 1..MaxBatch : deleteCollection_direct(r, "m1", b)
    \/ SweepStepOk(r)

SpecSweeps == InitSweeps /\ [][NextSweeps]_vars

\* every issued store call of every client settles, every scheduled tick runs
FairSweeps == SpecSweeps /\ \A r \in Sweepers : WF_vars(SweepStepOk(r))

\* --------------------------------------------- documents with a field id
\* data objects that carry a field named id
DocA1Id2 == [f \in {"a", "id"} |-> IF f = "a" THEN 1 ELSE 2]
DocA2Id1 == [f \in {"a", "id"} |-> IF f = "a" THEN 2 ELSE 1]
IdDataSet == {DocA1Id2, DocA2Id1}

\* a point read, translated queries (on a, ordered by the stored id) and scans
IdFilters ==
  {NoFilter, MkFilter(NoWhere, ""), MkFilter(WhereA1, ""), MkFilter(NoWhere, "id")}
  \cup {MkFilter(WhereId(i), "") : i \in Ids}

\* one client creating documents that carry a field id, and reading them
NextId ==
  \/ \E d \in IdDataSet : create(1, "m1", d)
  \/ \E f \in IdFilters : all(1, "m1", f)
  \/ create_then(1) \/ create_catch(1)
  \/ all_point_then(1) \/ all_query_then(1) \/ all_scan_then(1) \/ all_catch(1)

SpecId == Init /\ [][NextId]_vars

\* ------------------------------------------------- concurrent point writes
\* the collection m1 holds the document 1
InitRace ==
  /\ store = [m \in Models |-> IF m = "m1" THEN Seeded(1) ELSE EmptyColl]
  /\ projectId = TRUE
  /\ req = [r \in Slots |-> Idle]
  /\ prev = [r \in Slots |-> NoPrev]

RaceCall(r) ==
  \/ replaceById(r, "m1", 1, DocB2)
  \/ updateAttributes(r, "m1", 1, DocB2)
  \/ destroyById(r, "m1", 1)

RaceSettle(r) ==
  \/ replaceById_exists_then(r) \/ replaceById_exists_catch(r)
  \/ replaceById_update_then(r) \/ replaceById_update_reject(r)
  \/ updateAttributes_exists_then(r) \/ updateAttributes_exists_catch(r)
  \/ updateAttributes_set_then(r) \/ updateAttributes_set_reject(r)
  \/ destroyById_exists_then(r) \/ destroyById_exists_catch(r)
  \/ destroyById_delete_then(r) \/ destroyById_delete_reject(r)

\* several clients, each with one guarded request on document 1 at a time;
\* their store calls settle in any order
NextRace == \E r \in Slots : RaceCall(r) \/ RaceSettle(r)

SpecRace == InitRace /\ [][NextRace]_vars

\* =================================================================== claims
\* the requests below are read through these
Guarded(q) ==
  \/ q.op \in {"replaceById", "updateAttributes", "destroyById"}
  \/ q.op = "destroyAll" /\ HasId(q.where)
Sweep(q) == q.op = "deleteCollection" \/ (q.op = "destroyAll" /\ ~HasId(q.where))
SweepOps == {"destroyAll", "deleteCollection"}
Succeeded(q) == q.pc = "done" /\ ~q.failed
Success(res) == <<Cb("null", res)>>

\* C1: every request invokes its completion callback at most once; a request
\* one of whose store calls failed invoked it with that error and nothing else
C1_CallbackAtMostOnce ==
  \A r \in Slots :
    /\ Len(req[r].calls) <= 1
    /\ req[r].pc = "done" /\ req[r].failed
         => req[r].calls = <<Cb(StoreError, Undefined)>>

\* C2: a request that issued store calls, all of which have settled, has
\* invoked its callback, and with the store error when one of them failed
C2_SettledRequestCalledBack ==
  \A r \in Slots :
    req[r].pc \in {"done", "unhandled"}
      => /\ Len(req[r].calls) >= 1
         /\ req[r].failed => req[r].calls[1].err = StoreError

\* C3: when the existence probe of a guarded operation finds no document with
\* the identity, the request ends in that step with the single callback
\* 'Document not found', issues no write, and the store is unchanged
C3_NotFoundNoWrite ==
  [][\A r \in Slots :
       ( /\ Guarded(req[r]) /\ req[r].pc = "probe"
         /\ req[r].id \notin DocIds(req[r].model)
         /\ req'[r] # req[r] /\ ~req'[r].failed )
       => /\ req'[r].pc = "done"
          /\ req'[r].calls = <<Cb(NotFound, Undefined)>>
          /\ store' = store]_vars

C3_Witness ==
  \E r \in Slots :
    /\ Guarded(req[r]) /\ Succeeded(req[r])
    /\ req[r].calls = <<Cb(NotFound, Undefined)>>
    /\ req[r].id \notin DocIds(req[r].model)
    /\ DocIds(req[r].model) # {}

\* C4: a sweep with no store failure and no other writer ends, and when it has
\* ended it has reported success and the collection is empty
C4_SweepEmpties ==
  /\ [](\A r \in Slots :
          Sweep(req[r]) /\ Succeeded(req[r])
            => /\ req[r].calls = Success(IF req[r].op = "destroyAll"
                                          THEN Res("string", "") ELSE Undefined)
               /\ DocIds(req[r].model) = {})
  /\ \A r \in Slots :
       (Sweep(req[r]) /\ ~Settled(req[r])) ~> (req[r].pc = "done")

C4_Witness ==
  \E r \in Slots :
    /\ Sweep(req[r]) /\ Succeeded(req[r])
    /\ req[r].op = "destroyAll"
    /\ Cardinality(req[r].pre) > 2 * req[r].batchSize
    /\ req[r].commits = 3
    /\ DocIds(req[r].model) = {}

\* C5: a sweep called on an empty collection succeeds after one page fetch
\* with no commit and no deletion, and a sweep called right after a
\* successful sweep is called on an empty collection
C5_EmptySweepIsNoOp ==
  \A r \in Slots :
    Sweep(req[r])
      => /\ prev[r].op \in SweepOps /\ prev[r].id = 0 /\ prev[r].model = req[r].model
              => req[r].pre = {}
         /\ req[r].pre = {} /\ Succeeded(req[r])
              => /\ req[r].calls = Success(IF req[r].op = "destroyAll"
                                            THEN Res("string", "") ELSE Undefined)
                 /\ req[r].fetches = 1 /\ req[r].commits = 0
                 /\ req[r].gone = {}
                 /\ DocIds(req[r].model) = {}

C5_Witness ==
  \E r \in Slots :
    /\ Sweep(req[r]) /\ Succeeded(req[r])
    /\ req[r].op = "destroyAll"
    /\ prev[r].op = "destroyAll" /\ prev[r].id = 0
    /\ req[r].pre = {} /\ req[r].fetches = 1

\* C6: with one request at a time, exists reports true right after a create
\* that returned the identity and false right after a destroyById of the
\* identity that reported success
C6_ExistsAfterCreateAndDestroy ==
  \A r \in Slots :
    ( /\ req[r].op = "exists" /\ Succeeded(req[r])
      /\ prev[r].model = req[r].model /\ prev[r].id = req[r].id )
    => /\ prev[r].op = "create" => req[r].calls = Success(Res("bool", TRUE))
       /\ prev[r].op = "destroyById" => req[r].calls = Success(Res("bool", FALSE))

C6_Witness ==
  \E r \in Slots :
    /\ req[r].op = "exists" /\ Succeeded(req[r])
    /\ prev[r].op = "destroyById"
    /\ prev[r].model = req[r].model /\ prev[r].id = req[r].id
    /\ req[r].calls = Success(Res("bool", FALSE))

\* C7: find with where.id reads that identity: an existing document comes
\* back as a one-element sequence whose id is the identity, a missing one as
\* a success with an empty result
C7_PointRead ==
  \A r \in Slots :
    ( /\ req[r].op = "all" /\ Succeeded(req[r])
      /\ req[r].filter.defined /\ req[r].filter.hasWhere
      /\ HasId(req[r].filter.where) )
    => LET id == WhereGet(req[r].filter.where, "id")
           c == req[r].calls
       IN /\ Len(c) = 1 /\ c[1].err = "null"
          /\ IF id \in DocIds(req[r].model)
             THEN /\ c[1].res.kind = "array"
                  /\ Len(c[1].res.val) = 1
                  /\ "id" \in DOMAIN c[1].res.val[1]
                  /\ c[1].res.val[1]["id"] = id
             ELSE /\ c[1].res.kind = "object"
                  /\ DOMAIN c[1].res.val = {}

C7_Witness ==
  \E r \in Slots :
    /\ req[r].op = "all" /\ Succeeded(req[r])
    /\ req[r].filter.hasWhere /\ HasId(req[r].filter.where)
    /\ WhereGet(req[r].filter.where, "id") \notin DocIds(req[r].model)
    /\ DocIds(req[r].model) # {}
    /\ req[r].calls = Success(Res("object", EmptyDoc))

\* the documents of coll whose fields equal the value of every key of w that
\* is not a reserved operator name
Matching(coll, w) ==
  {d \in DOMAIN coll :
     \A i \in DOMAIN w :
        \/ w[i][1] \in Reserved
        \/ w[i][1] \in DOMAIN coll[d] /\ coll[d][w[i][1]] = w[i][2]}

\* a find that went through the translated query and got an answer
Queried(q) ==
  /\ q.op = "all" /\ Succeeded(q)
  /\ q.filter.defined /\ q.filter.hasWhere /\ ~HasId(q.filter.where)

\* the answer of request q is exactly the documents ids of its collection
Returns(q, ids) ==
  /\ Len(q.calls) = 1 /\ q.calls[1].err = "null"
  /\ q.calls[1].res.kind = "array"
  /\ LET val == q.calls[1].res.val
     IN /\ Len(val) = Cardinality(ids)
        /\ \A d \in ids :
             \E k \in DOMAIN val :
               /\ val[k]["id"] = d
               /\ DOMAIN val[k] = DOMAIN Coll(q.model)[d] \cup {"id"}
               /\ \A f \in DOMAIN Coll(q.model)[d] : val[k][f] = Coll(q.model)[d][f]

\* C8 as stated: a find through the translated query returns exactly the
\* documents matching every equality clause
C8_ExactlyMatching ==
  \A r \in Slots :
    Queried(req[r])
      => Returns(req[r], Matching(Coll(req[r].model), req[r].filter.where))

\* C8 amended: ... exactly the documents matching every equality clause that,
\* when the filter has an orderBy, also carry the orderBy field
C8_ExactlyMatchingOrdered ==
  \A r \in Slots :
    Queried(req[r])
      => Returns(req[r],
                 {d \in Matching(Coll(req[r].model), req[r].filter.where) :
                    \/ req[r].filter.orderBy = ""
                    \/ req[r].filter.orderBy \in DOMAIN Coll(req[r].model)[d]})

C8_Witness ==
  \E r \in Slots :
    /\ Queried(req[r])
    /\ req[r].filter.where = WhereA2B1 /\ req[r].filter.orderBy = ""
    /\ Len(req[r].calls[1].res.val) = 1
    /\ \E d \in DocIds(req[r].model) : FieldEq(Coll(req[r].model)[d], "a", 2)
                                        /\ ~FieldEq(Coll(req[r].model)[d], "b", 1)

\* C9: count answers the size of the collection for an empty where and
\* otherwise the number of documents whose field equals the value of the
\* first pair of where
C9_CountFirstPair ==
  \A r \in Slots :
    req[r].op = "count" /\ Succeeded(req[r])
      => LET coll == Coll(req[r].model)
             w == req[r].where
             n == IF Len(w) = 0 THEN Cardinality(DOMAIN coll)
                  ELSE Cardinality({d \in DOMAIN coll :
                                      /\ w[1][1] \in DOMAIN coll[d]
                                      /\ coll[d][w[1][1]] = w[1][2]})
         IN req[r].calls = Success(Res("number", n))

C9_Witness ==
  \E r \in Slots :
    /\ req[r].op = "count" /\ Succeeded(req[r])
    /\ req[r].where = WhereB1A2
    /\ req[r].calls = Success(Res("number", 1))
    /\ Matching(Coll(req[r].model), WhereB1A2) = {}

\* C10: on an existing document the write of updateAttributes leaves exactly
\* data, the write of replaceById leaves the old fields overridden by data,
\* and both leave every other document as it was
C10_SetOverwritesUpdateMerges ==
  [][\A r \in Slots :
       ( /\ req[r].op \in {"updateAttributes", "replaceById"}
         /\ req[r].pc = "write" /\ req'[r].pc = "done"
         /\ req[r].id \in DocIds(req[r].model) )
       => LET m == req[r].model
              id == req[r].id
              data == req[r].data
          IN /\ DOMAIN store'[m] = DOMAIN store[m]
             /\ \A i \in DOMAIN store[m] \ {id} : store'[m][i] = store[m][i]
             /\ \A o \in Models \ {m} : store'[o] = store[o]
             /\ req'[r].calls = Success(Res("array", << >>))
             /\ IF req[r].op = "updateAttributes"
                THEN store'[m][id] = data
                ELSE /\ DOMAIN store'[m][id] = DOMAIN store[m][id] \cup DOMAIN data
                     /\ \A f \in DOMAIN store'[m][id] :
                          store'[m][id][f] = IF f \in DOMAIN data THEN data[f]
                                             ELSE store[m][id][f]]_vars

C10_Witness ==
  \E r \in Slots :
    /\ req[r].op = "replaceById" /\ Succeeded(req[r])
    /\ req[r].calls = Success(Res("array", << >>))
    /\ DOMAIN store[req[r].model][req[r].id] # DOMAIN req[r].data
    /\ Cardinality(DocIds(req[r].model)) > 1

\* C11: a find whose filter has no where.id and has an orderBy (with or
\* without a where) answers its documents in ascending order of that field
C11_OrderedWhenOrderBy ==
  \A r \in Slots :
    ( /\ req[r].op = "all" /\ Succeeded(req[r])
      /\ req[r].filter.defined /\ req[r].filter.orderBy # ""
      /\ ~(req[r].filter.hasWhere /\ HasId(req[r].filter.where)) )
    => LET val == req[r].calls[1].res.val
           o == req[r].filter.orderBy
       IN \A k, l \in DOMAIN val :
            (k < l /\ o \in DOMAIN val[k] /\ o \in DOMAIN val[l])
              => val[k][o] <= val[l][o]

\* C12: destroyAll with a where.id deletes, after a probe that found it, that
\* one document and no other; with no where.id it sweeps the whole collection
\* of its model, whatever other keys the where has; in both forms every other
\* collection is left as it was
C12_DestroyAllScope ==
  [][\A r \in Slots :
       (req[r].op = "destroyAll" /\ ~Settled(req[r]) /\ req'[r] # req[r])
       => LET m == req[r].model
          IN /\ \A o \in Models \ {m} : store'[o] = store[o]
             /\ HasId(req[r].where)
                => \/ store'[m] = store[m]
                   \/ /\ req[r].pc = "write"
                      /\ store'[m] = Without(store[m], {req[r].id})
             /\ (~HasId(req[r].where) /\ Succeeded(req'[r]))
                => DOMAIN store'[m] = {}
             /\ ~HasId(req[r].where)
                => \A i \in DOMAIN store'[m] :
                     i \in DOMAIN store[m] /\ store'[m][i] = store[m][i]]_vars

\* a destroyAll with the where {a: 1} succeeded on a collection of two
\* documents and left it empty, the other collection still holding its own
C12_Witness ==
  /\ req[1].op = "destroyAll" /\ req[1].where = WhereA1 /\ Succeeded(req[1])
  /\ Cardinality(req[1].pre) = 2 /\ req[1].gone = req[1].pre
  /\ DOMAIN store[req[1].model] = {}
  /\ DOMAIN store["m2"] # {}

\* C13: the step that ends an update without a store failure has applied the
\* partial update to at most one matching document (the first the limited
\* query yields), the step that ends an updateAll has applied it to every
\* matching document, and no other document changed
C13_UpdateApplied ==
  [][\A r \in Slots :
       ( /\ req'[r].op \in {"update", "updateAll"} /\ req'[r] # req[r]
         /\ Settled(req'[r]) /\ ~req'[r].failed )
       => LET m == req'[r].model
              hits == query(store[m], req'[r].filter)
          IN /\ \A o \in Models \ {m} : store'[o] = store[o]
             /\ IF req'[r].op = "update"
                THEN store'[m] \in {store[m],
                                    Patched(store[m], Limit(hits, 1), req'[r].data)}
                ELSE store'[m] = Patched(store[m], hits, req'[r].data)]_vars

\* C14: the probe and the write of a guarded request are two steps, and
\* another request can delete the document between them: the write is applied
\* all the same. Applied to the missing document, the set of updateAttributes
\* creates it again and success is reported, the delete of destroyById
\* reports success, the update of replaceById is rejected
C14_WriteAfterDelete ==
  [][\A r \in Slots :
       ( /\ Guarded(req[r]) /\ req[r].pc = "write"
         /\ req[r].id \notin DocIds(req[r].model) /\ req'[r] # req[r] )
       => \/ req'[r].pc = "unhandled" /\ store' = store
          \/ /\ req[r].op = "updateAttributes" /\ Succeeded(req'[r])
             /\ req'[r].calls = Success(Res("array", << >>))
             /\ req[r].id \in DOMAIN store'[req[r].model]
             /\ store'[req[r].model][req[r].id] = req[r].data
          \/ /\ req[r].op = "destroyById" /\ Succeeded(req'[r])
             /\ req'[r].calls = Success(Res("array", << >>))
             /\ store' = store]_vars

\* destroyById on slot 2 reported success, updateAttributes on slot 1, whose
\* probe had seen the document, reported success after it, and the document
\* exists (no request of this specification creates one)
C14_Witness ==
  /\ req[1].op = "updateAttributes" /\ Succeeded(req[1])
  /\ req[2].op = "destroyById" /\ Succeeded(req[2])
  /\ req[1].id = req[2].id /\ req[1].model = req[2].model
  /\ req[1].id \in DocIds(req[1].model)
  /\ store[req[1].model][req[1].id] = req[1].data

\* C15: in a sweep a page is fetched only once the batch of the page before
\* is committed (a fetch is issued by the tick that follows a settled commit,
\* and while a fetch is pending every earlier page has its one batch, none
\* pending); the commit of a page removes exactly the documents of that page;
\* success is reported only by the step that finds the page just fetched empty
C15_PageByPage ==
  /\ [](\A r \in Slots :
          Sweep(req[r]) =>
            /\ req[r].pc = "fetch" => req[r].commits = req[r].fetches - 1
            /\ req[r].pc \in {"commit", "tick"}
                 => req[r].commits = req[r].fetches /\ req[r].page # << >>)
  /\ [][\A r \in Slots :
          (Sweep(req[r]) /\ ~Settled(req[r]) /\ req'[r] # req[r])
          => LET q == req[r]
                 m == q.model
             IN /\ req'[r].fetches # q.fetches
                   => /\ q.pc = "tick" /\ req'[r].pc = "fetch"
                      /\ req'[r].fetches = q.fetches + 1
                /\ req'[r].commits # q.commits
                   => /\ q.pc = "fetch" /\ req'[r].pc = "commit"
                      /\ req'[r].commits = q.commits + 1
                      /\ req'[r].page = PageOf(store[m], q.batchSize)
                      /\ req'[r].page # << >>
                /\ store' # store
                   => /\ q.pc = "commit" /\ req'[r].pc = "tick"
                      /\ Range(q.page) \subseteq DOMAIN store[m]
                      /\ store' = [store EXCEPT ![m] = Without(@, Range(q.page))]
                /\ Succeeded(req'[r])
                   => /\ q.pc = "fetch" /\ req'[r].page = << >>
                      /\ PageOf(store[m], q.batchSize) = << >>]_vars

\* a sweep reported success after two or more committed pages, its last
\* fetch having found an empty page
C15_Witness ==
  \E r \in Slots :
    /\ Sweep(req[r]) /\ Succeeded(req[r])
    /\ req[r].commits >= 2 /\ req[r].fetches = req[r].commits + 1
    /\ req[r].page = << >>

\* C16: the step in which a fetch or a commit of a sweep fails ends the
\* request: the store is left as it is, the only callback is the one with the
\* error, and no fetch or commit is issued for the request afterwards; the
\* collection then holds the initial documents minus those of the pages
\* committed before (a whole number of pages from the front; the page whose
\* commit failed is still there)
C16_FailureStopsSweep ==
  [][\A r \in Slots :
       LET q == req[r]
           m == q.model
       IN /\ (Sweep(q) /\ ~q.failed /\ req'[r].failed)
             => /\ q.pc \in {"fetch", "commit"}
                /\ req'[r].pc = "done"
                /\ req'[r].calls = <<Cb(StoreError, Undefined)>>
                /\ req'[r].fetches = q.fetches
                /\ store' = store
                /\ DOMAIN store'[m] = q.pre \ q.gone
                /\ q.gone = Range(Limit(Ascending(q.pre),
                                        q.batchSize * (IF q.pc = "commit"
                                                       THEN q.commits - 1
                                                       ELSE q.commits)))
                /\ q.pc = "commit" => Range(q.page) \subseteq DOMAIN store'[m]
          /\ (Sweep(q) /\ q.failed /\ req'[r] # q)
             => q.pc = "done" /\ req'[r].commits = 0 /\ req'[r].calls = << >>]_vars

\* the commit of the second page of a destroyAll failed: the first ten
\* documents are gone, the others are still there
C16_Witness ==
  /\ req[1].op = "destroyAll" /\ req[1].pc = "done" /\ req[1].failed
  /\ req[1].commits = 2 /\ req[1].fetches = 2
  /\ Cardinality(req[1].gone) = DefaultBatchSize
  /\ DOMAIN store[req[1].model] = req[1].pre \ req[1].gone
  /\ Cardinality(DOMAIN store[req[1].model]) > 0

\* C17: with one sweep and no other writer, a fetched page holds no document
\* that a committed page of the sweep deleted, only documents still stored,
\* and the commit of a page leaves the collection smaller by the page
C17_NoRefetch ==
  /\ [](\A r \in Slots :
          (Sweep(req[r]) /\ req[r].pc = "commit")
          => /\ Range(req[r].page) \cap req[r].gone = {}
             /\ Range(req[r].page) \subseteq DocIds(req[r].model)
             /\ Len(req[r].page) = Cardinality(Range(req[r].page)))
  /\ [][\A r \in Slots :
          (Sweep(req[r]) /\ req[r].pc = "commit" /\ req'[r].pc = "tick")
          => LET m == req[r].model
             IN /\ Cardinality(DOMAIN store'[m]) < Cardinality(DOMAIN store[m])
                /\ Cardinality(DOMAIN store'[m])
                     = Cardinality(DOMAIN store[m]) - Len(req[r].page)]_vars

\* the second page of a sweep is fetched and about to be committed
C17_Witness ==
  \E r \in Slots :
    /\ Sweep(req[r]) /\ req[r].pc = "commit" /\ req[r].fetches = 2
    /\ req[r].gone # {} /\ req[r].page # << >>

\* C19: a committed batch of a sweep with page size P holds between 1 and P
\* deletes; a sweep over N documents that ended in success issued
\* ceil(N / P) commits and one fetch more
C19_BatchAndRoundCounts ==
  \A r \in Slots :
    Sweep(req[r]) =>
      LET P == req[r].batchSize
          N == Cardinality(req[r].pre)
      IN /\ req[r].pc = "commit"
            => 1 <= Len(req[r].page) /\ Len(req[r].page) <= P
         /\ Succeeded(req[r])
            => /\ req[r].commits = (N + P - 1) \div P
               /\ req[r].fetches = req[r].commits + 1

\* a destroyAll over 21 documents succeeded after 3 commits and 4 fetches
C19_Witness ==
  /\ req[1].op = "destroyAll" /\ Succeeded(req[1])
  /\ Cardinality(req[1].pre) = 2 * DefaultBatchSize + 1
  /\ req[1].commits = 3 /\ req[1].fetches = 4

\* C18: every document find returns (point read, translated query, scan)
\* carries as id the identity the store gave it: the other fields are those
\* stored under that identity, a stored field id does not show, and no two
\* returned documents have the same id
C18_IdIsIdentity ==
  \A r \in Slots :
    ( /\ req[r].op = "all" /\ Succeeded(req[r])
      /\ req[r].calls[1].res.kind = "array" )
    => LET val == req[r].calls[1].res.val
           coll == store[req[r].model]
       IN /\ \A k \in DOMAIN val :
               /\ val[k]["id"] \in DOMAIN coll
               /\ DOMAIN val[k] = (DOMAIN coll[val[k]["id"]]) \cup {"id"}
               /\ \A f \in (DOMAIN val[k]) \ {"id"} :
                    val[k][f] = coll[val[k]["id"]][f]
          /\ \A k, l \in DOMAIN val : k # l => val[k]["id"] # val[l]["id"]

\* a find returned two documents, each stored with a field id that holds
\* the identity of the other
C18_Witness ==
  /\ req[1].op = "all" /\ Succeeded(req[1])
  /\ req[1].calls[1].res.kind = "array"
  /\ Len(req[1].calls[1].res.val) = 2
  /\ \A k \in 1..2 :
       LET d == req[1].calls[1].res.val[k]
       IN /\ "id" \in DOMAIN store[req[1].model][d["id"]]
          /\ store[req[1].model][d["id"]]["id"] # d["id"]

\* C20: with sweeps of two clients interleaved on one collection, no
\* store failure and no create, every sweep ends, and ends in success; once a
\* sweep has reported success the collection is empty, so it is when all have
C20_ConcurrentSweeps ==
  /\ [](\A r \in Sweepers :
          (Sweep(req[r]) /\ Settled(req[r]))
          => /\ Succeeded(req[r]) /\ req[r].calls = Resolved(req[r])
             /\ DocIds(req[r].model) = {})
  /\ \A r \in Sweepers : Sweep(req[r]) ~> (Sweep(req[r]) /\ Succeeded(req[r]))

\* two sweeps that ran at the same time have both reported success, each
\* having deleted documents and one having committed a page whose documents
\* the other had already deleted
C20_Witness ==
  /\ Sweep(req[1]) /\ Succeeded(req[1]) /\ Sweep(req[2]) /\ Succeeded(req[2])
  /\ req[1].gone # {} /\ req[2].gone # {}
  /\ req[1].pre = req[2].pre
  /\ req[1].gone \cup req[2].gone = req[1].pre
  /\ req[1].commits * req[1].batchSize > Cardinality(req[1].gone)
  /\ DocIds("m1") = {}

====
